---- MODULE Spec2Model ----
(***************************************************************************)
(* Local Job Connect (backend/app.py): the geo-filtered job matching and   *)
(* application-funnel analytics of the Flask application, as a state       *)
(* machine over the persistent store.                                      *)
(*                                                                         *)
(* Units.  Coordinates are integers, metres north / east of (0, 0), so a   *)
(* latitude or longitude of 0 is the number 0 of the code.  Distances are  *)
(* metres (the code's kilometres times 1000); a distance rounded to two    *)
(* decimals is a number of hundredths of a kilometre.  Percentages and     *)
(* day averages rounded to one decimal are numbers of tenths.  A Python    *)
(* value that may be None is a sequence of length 0 (None) or 1.  Text     *)
(* that is searched is a sequence of one-character strings.                *)
(***************************************************************************)
EXTENDS Integers, Sequences, FiniteSets, TLC

VARIABLES users, job_postings, applications, utcnow, response, requests

vars == <<users, job_postings, applications, utcnow, response, requests>>
store == <<users, job_postings, applications>>

(***************************************************************************)
(* Bounds of the model.                                                    *)
(***************************************************************************)
MaxUsers == 2
MaxJobs == 2
MaxClock == 2
MaxRateApps == 80
MaxRateInterviews == 2
MaxRateApplied == 4
MaxRateMixed == 3
MaxMonths == 8
MaxRequests == 2

(***************************************************************************)
(* Python values.                                                          *)
(***************************************************************************)
None == <<>>
Some(x) == <<x>>
Falsy(v) == v = None \/ v[1] = 0

Abs(x) == IF x < 0 THEN 0 - x ELSE x

RECURSIVE Pow2(_)
Pow2(n) == IF n = 0 THEN 1 ELSE 2 * Pow2(n - 1)

Range(s) == {s[i] : i \in DOMAIN s}

Perms(S) == {f \in [1..Cardinality(S) -> S] : \A i, j \in 1..Cardinality(S) : f[i] = f[j] => i = j}

(***************************************************************************)
(* Configuration read from the environment (service area, in metres).      *)
(***************************************************************************)
SERVICE_AREA_CENTER_LAT == 6000
SERVICE_AREA_CENTER_LNG == 8000
SERVICE_AREA_RADIUS_KM == 50
MetresPerKm == 1000
MinPasswordLength == 8
DefaultRadiusKm == 25

(***************************************************************************)
(* Places the geocoding provider can answer with: <<latitude, longitude>>. *)
(*   LocA      the service-area centre                                     *)
(*   LocB      9.996 km east of LocA                                       *)
(*   LocZero   on latitude 0, 6 km from the centre                         *)
(*   LocFar    60 km north of the centre                                   *)
(***************************************************************************)
LocA == <<6000, 8000>>
LocB == <<6000, 17996>>
LocZero == <<0, 8000>>
LocFar == <<66000, 8000>>
Locations == {LocA, LocB, LocZero, LocFar}

(***************************************************************************)
(* geocode_address: the provider's reply is either a failure of the        *)
(* request or of the parsing (ok = FALSE) or a list of features, each a    *)
(* coordinate pair [longitude, latitude]; the first feature is used.       *)
(***************************************************************************)
Feature(loc) == <<loc[2], loc[1]>>
GeoFailure == [ok |-> FALSE, features |-> <<>>]
GeoEmpty == [ok |-> TRUE, features |-> <<>>]
GeoFound(loc) == [ok |-> TRUE, features |-> <<Feature(loc)>>]
GeoReplies == {GeoFailure, GeoEmpty} \cup {GeoFound(l) : l \in Locations}

Unresolved == <<None, None>>

geocode_address_swapped(reply) ==
    IF reply.ok /\ reply.features /= <<>>
    THEN <<Some(reply.features[1][1]), Some(reply.features[1][2])>>
    ELSE Unresolved

geocode_address(reply) ==
    IF reply.ok
    THEN IF reply.features /= <<>>
         THEN LET coordinates == reply.features[1]
                  longitude == coordinates[1]
                  latitude == coordinates[2]
              IN <<Some(latitude), Some(longitude)>>
         ELSE Unresolved
    ELSE Unresolved

(***************************************************************************)
(* calculate_distance: geodesic distance, here on the plane, in whole      *)
(* metres.                                                                 *)
(***************************************************************************)
RECURSIVE SqrtSearch(_, _, _)
SqrtSearch(n, lo, hi) ==
    IF lo = hi THEN lo
    ELSE LET mid == (lo + hi + 1) \div 2
         IN IF mid * mid <= n THEN SqrtSearch(n, mid, hi) ELSE SqrtSearch(n, lo, mid - 1)

ISqrt(n) == SqrtSearch(n, 0, 46340)

calculate_distance(lat1, lon1, lat2, lon2) ==
    LET dlat == Abs(lat1 - lat2)
        dlon == Abs(lon1 - lon2)
    IN IF dlat = 0 THEN dlon
       ELSE IF dlon = 0 THEN dlat
       ELSE ISqrt(dlat * dlat + dlon * dlon)

is_within_service_area_always(lat, lng) == TRUE

is_within_service_area(lat, lng) ==
    LET center_lat == SERVICE_AREA_CENTER_LAT
        center_lng == SERVICE_AREA_CENTER_LNG
        max_radius == SERVICE_AREA_RADIUS_KM * MetresPerKm
        distance == calculate_distance(center_lat, center_lng, lat, lng)
    IN distance <= max_radius

(***************************************************************************)
(* The response of the last request: the handler, the acting user (0      *)
(* where the response does not depend on who asked), the flashed message,  *)
(* the result of the geocoder when it was called (<<>> when it was not),   *)
(* arguments of the request, and what was rendered.                        *)
(***************************************************************************)
Resp(op, user, flash, geo, args, result) ==
    [op |-> op, user |-> user, flash |-> flash, geo |-> geo, args |-> args, result |-> result]

(* no request is in flight *)
NoRequests == <<>>

NoResponse == Resp("none", 0, "", <<>>, <<>>, <<>>)

FlashCouldNotVerify == "Could not verify address. Please check and try again."
FlashCouldNotVerifyNew == "Could not verify new address. Please check and try again."
FlashOutsideArea == "This location is outside our service area!"
FlashAccessDenied == "Access denied!"
FlashAlreadyApplied == "You have already applied to this job!"
FlashNotFound == "404"

(***************************************************************************)
(* The persistent store.  A row's id is its position in its table; no      *)
(* handler deletes a user, a posting or an application.  A handler that    *)
(* returns without db.session.commit() leaves the store as it was: the     *)
(* session with its pending changes is discarded at the end of the         *)
(* request.                                                                *)
(***************************************************************************)
session_end_autocommit(committed, pending, commit) == pending

session_end(committed, pending, commit) == IF commit THEN pending ELSE committed

UserIds == 1..Len(users)
JobIds == 1..Len(job_postings)
ApplicationIds == 1..Len(applications)

(***************************************************************************)
(* Request forms.                                                          *)
(***************************************************************************)
Roles == {"employer", "job_seeker"}
Emails == {"e1", "e2"}
PasswordLength(p) == IF p = "short" THEN 5 ELSE 10
PasswordPairs == {<<"longenough", "longenough">>, <<"short", "short">>, <<"longenough", "different">>}

Address1 == [address |-> "1 Marina Rd", city |-> "Lagos", zip_code |-> "101001"]
Address2 == [address |-> "2 Broad St", city |-> "Lagos", zip_code |-> "101001"]
AddressForms == {Address1, Address2}

RegisterForm(email, pw, role) ==
    [email |-> email, password |-> pw[1], confirm_password |-> pw[2], role |-> role,
     full_name |-> "n1", phone |-> "p1",
     address |-> Address1.address, city |-> Address1.city, zip_code |-> Address1.zip_code,
     company_name |-> "co1", company_description |-> "d1"]
RegisterForms == {RegisterForm(e, pw, r) : e \in Emails, pw \in PasswordPairs, r \in Roles}

ProfileForm(name, a) ==
    [full_name |-> name[1], phone |-> name[2],
     address |-> a.address, city |-> a.city, zip_code |-> a.zip_code,
     company_name |-> "co1", company_description |-> "d1"]
ProfileForms == {ProfileForm(n, a) : n \in {<<"n1", "p1">>, <<"n2", "p2">>}, a \in AddressForms}

JobForm1 ==
    [title |-> <<"A", "b">>, description |-> <<"c">>, category |-> "c1",
     employment_type |-> "full_time", salary_min |-> "", salary_max |-> "",
     street_address |-> Address1.address, city |-> Address1.city, zip_code |-> Address1.zip_code]
JobForm2 ==
    [title |-> <<"b">>, description |-> <<"c", "a">>, category |-> "c2",
     employment_type |-> "full_time", salary_min |-> "", salary_max |-> "",
     street_address |-> Address1.address, city |-> Address1.city, zip_code |-> Address1.zip_code]
JobForms == {JobForm1, JobForm2}

(***************************************************************************)
(* register                                                                *)
(***************************************************************************)
register(form, reply) ==
    LET mismatch == form.password /= form.confirm_password
        tooShort == PasswordLength(form.password) < MinPasswordLength
        taken == \E i \in UserIds : users[i].email = form.email
        called == ~mismatch /\ ~tooShort /\ ~taken
        geo == geocode_address(reply)
        lat == geo[1]
        lng == geo[2]
        unverified == called /\ (Falsy(lat) \/ Falsy(lng))
        user == [email |-> form.email, role |-> form.role, full_name |-> form.full_name,
                 phone |-> form.phone, address |-> form.address, city |-> form.city,
                 zip_code |-> form.zip_code, latitude |-> lat[1], longitude |-> lng[1],
                 company_name |-> IF form.role = "employer" THEN Some(form.company_name) ELSE None,
                 company_description |-> IF form.role = "employer" THEN Some(form.company_description) ELSE None]
        flash == IF mismatch THEN "Passwords do not match!"
                 ELSE IF tooShort THEN "Password must be at least 8 characters long!"
                 ELSE IF taken THEN "Email already registered!"
                 ELSE IF unverified THEN FlashCouldNotVerify
                 ELSE "Registration successful! Please log in."
    IN /\ (called /\ ~unverified) => Len(users) < MaxUsers
       /\ users' = IF called /\ ~unverified THEN Append(users, user) ELSE users
       /\ response' = Resp("register", 0, flash, IF called THEN <<geo>> ELSE <<>>, <<>>, <<>>)
       /\ UNCHANGED <<job_postings, applications, utcnow, requests>>

(***************************************************************************)
(* edit_profile (POST)                                                     *)
(***************************************************************************)
edit_profile(u, form, reply) ==
    LET current_user == users[u]
        named == [current_user EXCEPT !.full_name = form.full_name, !.phone = form.phone]
        address_changed == \/ form.address /= current_user.address
                           \/ form.city /= current_user.city
                           \/ form.zip_code /= current_user.zip_code
        geo == geocode_address(reply)
        lat == geo[1]
        lng == geo[2]
        unverified == address_changed /\ (Falsy(lat) \/ Falsy(lng))
        moved == IF address_changed /\ ~unverified
                 THEN [named EXCEPT !.address = form.address, !.city = form.city,
                                    !.zip_code = form.zip_code,
                                    !.latitude = lat[1], !.longitude = lng[1]]
                 ELSE named
        pending == IF current_user.role = "employer"
                   THEN [moved EXCEPT !.company_name = Some(form.company_name),
                                      !.company_description = Some(form.company_description)]
                   ELSE moved
        flash == IF unverified THEN FlashCouldNotVerifyNew ELSE "Profile updated successfully!"
    IN /\ u \in UserIds
       /\ users' = session_end(users, [users EXCEPT ![u] = IF unverified THEN named ELSE pending],
                               ~unverified)
       /\ response' = Resp("edit_profile", u, flash,
                           IF address_changed THEN <<geo>> ELSE <<>>, form, <<>>)
       /\ UNCHANGED <<job_postings, applications, utcnow, requests>>

(***************************************************************************)
(* create_job (POST)                                                       *)
(***************************************************************************)
ToFloat(text) == IF text = "" THEN None ELSE Some(text)

create_job(u, form, reply) ==
    LET denied == users[u].role /= "employer"
        geo == geocode_address(reply)
        lat == geo[1]
        lng == geo[2]
        unverified == ~denied /\ (Falsy(lat) \/ Falsy(lng))
        outside == ~denied /\ ~unverified /\ ~is_within_service_area(lat[1], lng[1])
        job == [employer_id |-> u, title |-> form.title, description |-> form.description,
                category |-> form.category, employment_type |-> form.employment_type,
                salary_min |-> ToFloat(form.salary_min), salary_max |-> ToFloat(form.salary_max),
                street_address |-> form.street_address, city |-> form.city,
                zip_code |-> form.zip_code, latitude |-> lat[1], longitude |-> lng[1],
                status |-> "active"]
        flash == IF denied THEN FlashAccessDenied
                 ELSE IF unverified THEN FlashCouldNotVerify
                 ELSE IF outside THEN FlashOutsideArea
                 ELSE "Job posted successfully!"
    IN /\ u \in UserIds
       /\ ~(denied \/ unverified \/ outside) => Len(job_postings) < MaxJobs
       /\ job_postings' = IF denied \/ unverified \/ outside THEN job_postings
                          ELSE Append(job_postings, job)
       /\ response' = Resp("create_job", u, flash, IF denied THEN <<>> ELSE <<geo>>, <<>>, <<>>)
       /\ UNCHANGED <<users, applications, utcnow, requests>>

(***************************************************************************)
(* edit_job (POST)                                                         *)
(***************************************************************************)
edit_job(u, job_id, form) ==
    LET found == job_id \in JobIds
        job == job_postings[job_id]
        denied == found /\ job.employer_id /= u
        edited == [job EXCEPT !.title = form.title, !.description = form.description,
                              !.category = form.category,
                              !.employment_type = form.employment_type,
                              !.salary_min = ToFloat(form.salary_min),
                              !.salary_max = ToFloat(form.salary_max)]
        flash == IF ~found THEN FlashNotFound
                 ELSE IF denied THEN FlashAccessDenied ELSE "Job updated successfully!"
    IN /\ u \in UserIds
       /\ job_postings' = IF found /\ ~denied THEN [job_postings EXCEPT ![job_id] = edited]
                          ELSE job_postings
       /\ response' = Resp("edit_job", u, flash, <<>>, <<job_id>>, <<>>)
       /\ UNCHANGED <<users, applications, utcnow, requests>>

(***************************************************************************)
(* toggle_job_status                                                       *)
(***************************************************************************)
toggled_status_any(status) == IF status = "active" THEN "paused" ELSE "active"

toggled_status(status) ==
    IF status = "active" THEN "paused"
    ELSE IF status = "paused" THEN "active"
    ELSE status

toggle_job_status(u, job_id) ==
    LET found == job_id \in JobIds
        job == job_postings[job_id]
        denied == found /\ job.employer_id /= u
        flash == IF ~found THEN FlashNotFound
                 ELSE IF denied THEN FlashAccessDenied
                 ELSE IF job.status = "active" THEN "Job paused successfully!"
                 ELSE IF job.status = "paused" THEN "Job activated successfully!"
                 ELSE ""
    IN /\ u \in UserIds
       /\ job_postings' = IF found /\ ~denied
                          THEN [job_postings EXCEPT ![job_id].status = toggled_status(job.status)]
                          ELSE job_postings
       /\ response' = Resp("toggle_job_status", u, flash, <<>>, <<job_id>>, <<>>)
       /\ UNCHANGED <<users, applications, utcnow, requests>>

(***************************************************************************)
(* archive_job                                                             *)
(***************************************************************************)
archive_job(u, job_id) ==
    LET found == job_id \in JobIds
        job == job_postings[job_id]
        denied == found /\ job.employer_id /= u
        flash == IF ~found THEN FlashNotFound
                 ELSE IF denied THEN FlashAccessDenied ELSE "Job archived successfully!"
    IN /\ u \in UserIds
       /\ job_postings' = IF found /\ ~denied
                          THEN [job_postings EXCEPT ![job_id].status = "archived"]
                          ELSE job_postings
       /\ response' = Resp("archive_job", u, flash, <<>>, <<job_id>>, <<>>)
       /\ UNCHANGED <<users, applications, utcnow, requests>>

(***************************************************************************)
(* search_jobs                                                             *)
(*                                                                         *)
(* ilike: the SQL pattern match on lower-cased text, where % in the        *)
(* pattern stands for any run of characters and _ for any one character.   *)
(***************************************************************************)
LowerChar(c) == IF c = "A" THEN "a" ELSE IF c = "B" THEN "b" ELSE IF c = "C" THEN "c" ELSE c
Lower(text) == [i \in DOMAIN text |-> LowerChar(text[i])]

RECURSIVE Like(_, _)
Like(text, pattern) ==
    IF pattern = <<>> THEN text = <<>>
    ELSE IF Head(pattern) = "%"
         THEN Like(text, Tail(pattern)) \/ (text /= <<>> /\ Like(Tail(text), pattern))
         ELSE /\ text /= <<>>
              /\ Head(pattern) = "_" \/ Head(pattern) = Head(text)
              /\ Like(Tail(text), Tail(pattern))

ilike(column, pattern) == Like(Lower(column), Lower(pattern))

Contains(text, word) ==
    \E i \in 0..(Len(text) - Len(word)) : SubSeq(text, i + 1, i + Len(word)) = word

(* round(distance, 2): metres to hundredths of a kilometre, halves to even *)
round2_up(d) == (d + 9) \div 10

round2(d) ==
    LET q == d \div 10
        r == d % 10
    IN IF r > 5 \/ (r = 5 /\ q % 2 = 1) THEN q + 1 ELSE q

(* list.sort(key=...) : stable, ascending *)
RECURSIVE InsertByDistance(_, _)
InsertByDistance(x, s) ==
    IF s = <<>> THEN <<x>>
    ELSE IF x.distance < Head(s).distance THEN <<x>> \o s
    ELSE <<Head(s)>> \o InsertByDistance(x, Tail(s))

sort_by_distance_none(s) == s

RECURSIVE sort_by_distance(_)
sort_by_distance(s) ==
    IF s = <<>> THEN <<>>
    ELSE InsertByDistance(s[Len(s)], sort_by_distance(SubSeq(s, 1, Len(s) - 1)))

query_filter_all_statuses(job, keyword, category) ==
    /\ keyword /= <<>> => \/ ilike(job.title, <<"%">> \o keyword \o <<"%">>)
                          \/ ilike(job.description, <<"%">> \o keyword \o <<"%">>)
    /\ category /= "" => job.category = category

query_filter(job, keyword, category) ==
    /\ job.status = "active"
    /\ keyword /= <<>> => \/ ilike(job.title, <<"%">> \o keyword \o <<"%">>)
                          \/ ilike(job.description, <<"%">> \o keyword \o <<"%">>)
    /\ category /= "" => job.category = category

within_radius_any(distance, radius) == TRUE

within_radius(distance, radius) == distance <= radius

RECURSIVE with_distance(_, _, _)
with_distance(jobs, seeker, radius) ==
    IF jobs = <<>> THEN <<>>
    ELSE LET job == job_postings[Head(jobs)]
             distance == calculate_distance(seeker.latitude, seeker.longitude,
                                            job.latitude, job.longitude)
             rest == with_distance(Tail(jobs), seeker, radius)
         IN IF within_radius(distance, radius)
            THEN <<[job |-> Head(jobs), distance |-> round2(distance)]>> \o rest
            ELSE rest

Keywords == {<<>>, <<"a", "B">>, <<"_">>, <<"b", "c">>}
SearchCategories == {"", "c1"}
RadiusArgs == {None, Some(0), Some(9996)}

(* jobs: the rows of query.all(), in the order the store returns them; the *)
(* query has no ORDER BY, so every order of the matching rows is possible  *)
search_jobs(u, keyword, category, radius_arg) ==
    \E jobs \in Perms({j \in JobIds : query_filter(job_postings[j], keyword, category)}) :
        LET current_user == users[u]
            denied == current_user.role /= "job_seeker"
            radius == IF radius_arg = None THEN DefaultRadiusKm * MetresPerKm ELSE radius_arg[1]
            jobs_with_distance == sort_by_distance(with_distance(jobs, current_user, radius))
        IN /\ u \in UserIds
           /\ response' = IF denied
                          THEN Resp("search_jobs", u, FlashAccessDenied, <<>>, <<>>, <<>>)
                          ELSE Resp("search_jobs", u, "", <<>>,
                                    [keyword |-> keyword, category |-> category,
                                     radius |-> radius, jobs |-> jobs],
                                    jobs_with_distance)
           /\ UNCHANGED <<users, job_postings, applications, utcnow, requests>>

(***************************************************************************)
(* apply_job                                                               *)
(***************************************************************************)
existing_application_none(job_id, u) == FALSE

existing_application(job_id, u) ==
    \E a \in ApplicationIds : /\ applications[a].job_id = job_id
                              /\ applications[a].applicant_id = u

apply_job(u, job_id, method) ==
    LET denied == users[u].role /= "job_seeker"
        found == job_id \in JobIds
        submit == ~denied /\ found /\ ~existing_application(job_id, u) /\ method = "POST"
        application == [job_id |-> job_id, applicant_id |-> u, resume_id |-> None,
                        cover_letter |-> "", status |-> "applied",
                        submitted_at |-> utcnow, updated_at |-> utcnow]
        flash == IF denied THEN "Only job seekers can apply!"
                 ELSE IF ~found THEN FlashNotFound
                 ELSE IF existing_application(job_id, u) THEN FlashAlreadyApplied
                 ELSE IF method = "POST" THEN "Application submitted successfully!"
                 ELSE ""
    IN /\ u \in UserIds
       /\ applications' = IF submit THEN Append(applications, application) ELSE applications
       /\ response' = Resp("apply_job", 0, flash, <<>>, <<>>, <<>>)
       /\ UNCHANGED <<users, job_postings, utcnow, requests>>

(***************************************************************************)
(* update_application_status: the row is written, and updated_at is set    *)
(* to the time of the write (onupdate), when the status differs from the   *)
(* stored one.                                                             *)
(***************************************************************************)
onupdate_never(row, new_status, now) == row.updated_at

onupdate(row, new_status, now) == IF new_status /= row.status THEN now ELSE row.updated_at

update_application_status(u, application_id, new_status) ==
    LET found == application_id \in ApplicationIds
        application == applications[application_id]
        denied == found /\ job_postings[application.job_id].employer_id /= u
        flash == IF ~found THEN FlashNotFound
                 ELSE IF denied THEN FlashAccessDenied ELSE "Application status updated!"
    IN /\ u \in UserIds
       /\ applications' =
              IF found /\ ~denied
              THEN [applications EXCEPT ![application_id] =
                        [application EXCEPT !.status = new_status,
                                            !.updated_at = onupdate(application, new_status, utcnow)]]
              ELSE applications
       /\ response' = Resp("update_application_status", 0, flash, <<>>, <<>>, <<>>)
       /\ UNCHANGED <<users, job_postings, utcnow, requests>>

(* datetime.utcnow() advances between requests                             *)
Tick ==
    /\ utcnow < MaxClock
    /\ utcnow' = utcnow + 1
    /\ UNCHANGED <<users, job_postings, applications, response, requests>>

(***************************************************************************)
(* Requests served at the same time.  A request first loads the row into   *)
(* its own session (get_or_404 and the owner test), and later assigns the  *)
(* new status to the loaded object and commits.  The commit writes the     *)
(* columns whose value differs from the loaded one, and nothing when none  *)
(* differs; the store is not read again.  seq numbers the requests in the  *)
(* order in which they finished and at is the time at which they did.      *)
(***************************************************************************)
NotStarted == [op |-> "none", pc |-> "start", user |-> 0, id |-> 0, row |-> <<>>,
               new_status |-> "", seq |-> 0, at |-> 0]

Finished == Cardinality({r \in DOMAIN requests : requests[r].pc = "done"})

Loaded(op, u, id, row, new_status) ==
    [op |-> op, pc |-> "loaded", user |-> u, id |-> id, row |-> <<row>>,
     new_status |-> new_status, seq |-> 0, at |-> 0]

Refused(op, u, id) ==
    [op |-> op, pc |-> "done", user |-> u, id |-> id, row |-> <<>>,
     new_status |-> "", seq |-> Finished + 1, at |-> utcnow]

(* update_application_status up to the owner test                          *)
load_application(r, u, application_id, new_status) ==
    LET found == application_id \in ApplicationIds
        application == applications[application_id]
        denied == found /\ job_postings[application.job_id].employer_id /= u
    IN /\ r \in DOMAIN requests
       /\ requests[r].pc = "start"
       /\ u \in UserIds
       /\ requests' = [requests EXCEPT ![r] =
              IF found /\ ~denied
              THEN Loaded("update_application_status", u, application_id, application, new_status)
              ELSE Refused("update_application_status", u, application_id)]
       /\ response' = IF ~found THEN Resp("update_application_status", 0, FlashNotFound, <<>>, <<>>, <<>>)
                      ELSE IF denied
                      THEN Resp("update_application_status", 0, FlashAccessDenied, <<>>, <<>>, <<>>)
                      ELSE response
       /\ UNCHANGED <<users, job_postings, applications, utcnow>>

(* application.status = new_status; db.session.commit()                    *)
commit_application_status(r) ==
    LET request == requests[r]
        loaded == request.row[1]
    IN /\ r \in DOMAIN requests
       /\ request.pc = "loaded"
       /\ request.op = "update_application_status"
       /\ applications' =
              IF request.new_status /= loaded.status
              THEN [applications EXCEPT ![request.id] =
                        [@ EXCEPT !.status = request.new_status,
                                  !.updated_at = onupdate(loaded, request.new_status, utcnow)]]
              ELSE applications
       /\ requests' = [requests EXCEPT ![r].pc = "done", ![r].seq = Finished + 1,
                                       ![r].at = utcnow]
       /\ response' = Resp("update_application_status", 0, "Application status updated!",
                           <<>>, <<>>, <<>>)
       /\ UNCHANGED <<users, job_postings, utcnow>>

(* toggle_job_status and archive_job up to the owner test                  *)
load_job(r, op, u, job_id) ==
    LET found == job_id \in JobIds
        job == job_postings[job_id]
        denied == found /\ job.employer_id /= u
    IN /\ r \in DOMAIN requests
       /\ requests[r].pc = "start"
       /\ u \in UserIds
       /\ requests' = [requests EXCEPT ![r] =
              IF found /\ ~denied
              THEN Loaded(op, u, job_id, job,
                          IF op = "archive_job" THEN "archived" ELSE toggled_status(job.status))
              ELSE Refused(op, u, job_id)]
       /\ response' = IF ~found THEN Resp(op, u, FlashNotFound, <<>>, <<job_id>>, <<>>)
                      ELSE IF denied THEN Resp(op, u, FlashAccessDenied, <<>>, <<job_id>>, <<>>)
                      ELSE response
       /\ UNCHANGED <<users, job_postings, applications, utcnow>>

(* job.status = ...; db.session.commit()                                   *)
commit_job_status(r) ==
    LET request == requests[r]
        loaded == request.row[1]
        flash == IF request.op = "archive_job" THEN "Job archived successfully!"
                 ELSE IF loaded.status = "active" THEN "Job paused successfully!"
                 ELSE IF loaded.status = "paused" THEN "Job activated successfully!"
                 ELSE ""
    IN /\ r \in DOMAIN requests
       /\ request.pc = "loaded"
       /\ request.op \in {"toggle_job_status", "archive_job"}
       /\ job_postings' =
              IF request.new_status /= loaded.status
              THEN [job_postings EXCEPT ![request.id].status = request.new_status]
              ELSE job_postings
       /\ requests' = [requests EXCEPT ![r].pc = "done", ![r].seq = Finished + 1,
                                       ![r].at = utcnow]
       /\ response' = Resp(request.op, request.user, flash, <<>>, <<request.id>>, <<>>)
       /\ UNCHANGED <<users, applications, utcnow>>

(* the clock, while requests are served                                    *)
TickRequests ==
    /\ utcnow < MaxClock
    /\ utcnow' = utcnow + 1
    /\ UNCHANGED <<users, job_postings, applications, response, requests>>

(***************************************************************************)
(* Floating point.  x / y of two integers and x * 100 are computed in      *)
(* binary64 and round(x, 1) rounds the stored binary value to the nearest  *)
(* tenth, halves to even.  A float is kept as the exact fraction p / q it  *)
(* stands for, together with what decides a rounding: the low bits of its  *)
(* 53-bit significand (mlow), the fraction num / den in [1, 2) that the    *)
(* significand approximates, and err, whose sign is the sign of            *)
(* (stored value - p / q).  The stored value differs from p / q by less    *)
(* than 2^-44 of it, so only the sign of err matters, and only when p / q  *)
(* lies exactly halfway between two tenths.                                *)
(***************************************************************************)
MantissaBits == 53
LowBits == 256

RECURSIVE Normalize(_, _)
Normalize(num, den) ==
    IF num < den THEN Normalize(2 * num, den)
    ELSE IF num >= 2 * den THEN Normalize(num, 2 * den)
    ELSE <<num, den>>

(* 2^n modulo m                                                            *)
RECURSIVE Pow2Mod(_, _)
Pow2Mod(n, m) == IF n = 0 THEN 1 % m ELSE (2 * Pow2Mod(n - 1, m)) % m

(* the quotient num * 2^bits / den, cut to an integer: its value modulo    *)
(* LowBits and the remainder of the division                               *)
LongDivision(num, den, bits) ==
    LET m == LowBits * den
        R == (num * Pow2Mod(bits, m)) % m
    IN <<R \div den, R % den>>

FloatZero == [p |-> 0, q |-> 1, err |-> 0, mlow |-> 0, num |-> 1, den |-> 1]

float_div(x, y) ==
    IF x = 0 THEN FloatZero
    ELSE LET n == Normalize(x, y)
             num == n[1]
             den == n[2]
             qr == LongDivision(num, den, MantissaBits - 1)
             q == qr[1]
             r == qr[2]
             up == 2 * r > den \/ (2 * r = den /\ q % 2 = 1)
         IN [p |-> x, q |-> y,
             err |-> IF up THEN den - r ELSE 0 - r,
             mlow |-> (q + (IF up THEN 1 ELSE 0)) % LowBits,
             num |-> num, den |-> den]

float_mul_100(x) ==
    IF x.p = 0 THEN FloatZero
    ELSE LET s == 100 * x.num - 128 * x.den
             k == IF s > 0 \/ (s = 0 /\ x.err >= 0) THEN 7 ELSE 6
             product == 100 * x.mlow
             low == product % Pow2(k)
             odd == (product \div Pow2(k)) % 2 = 1
             up == low > Pow2(k - 1) \/ (low = Pow2(k - 1) /\ odd)
             e2 == IF up THEN Pow2(k) - low ELSE 0 - low
         IN [p |-> 100 * x.p, q |-> x.q, err |-> 100 * x.err + x.den * e2,
             mlow |-> 0, num |-> x.num, den |-> x.den]

(* round(x, 1), in tenths                                                  *)
round1(x) ==
    LET f == (10 * x.p) \div x.q
        rem == (10 * x.p) % x.q
    IN IF 2 * rem < x.q THEN f
       ELSE IF 2 * rem > x.q THEN f + 1
       ELSE IF x.err > 0 THEN f + 1
       ELSE IF x.err < 0 THEN f
       ELSE IF f % 2 = 0 THEN f ELSE f + 1

(***************************************************************************)
(* analytics                                                               *)
(***************************************************************************)
TicksPerDay == 2
DaysPerMonth == 30
EpochYear == 2025
MonthNames == <<"January", "February", "March", "April", "May", "June", "July",
                "August", "September", "October", "November", "December">>
MonthsShown == 6
NoJobTitle == <<"N", "o", "n", "e">>

(* timedelta.days                                                          *)
days(delta) == delta \div TicksPerDay

(* strftime('%B %Y') and the key datetime.strptime(label, '%B %Y')         *)
strftime_month(t) ==
    LET m == days(t) \div DaysPerMonth
    IN <<MonthNames[(m % 12) + 1], EpochYear + (m \div 12)>>

strptime_month_in_year(label) ==
    CHOOSE i \in DOMAIN MonthNames : MonthNames[i] = label[1]

strptime_month(label) ==
    12 * label[2] + (CHOOSE i \in DOMAIN MonthNames : MonthNames[i] = label[1])

RECURSIVE SumOver(_, _)
SumOver(S, f) ==
    IF S = {} THEN 0
    ELSE LET x == CHOOSE y \in S : TRUE IN f[x] + SumOver(S \ {x}, f)

(* percentage of count in total: count / total * 100 if total else 0       *)
rate_of_one(count, total) == IF total = 0 THEN FloatZero ELSE float_div(count, total)

rate(count, total) ==
    IF total = 0 THEN FloatZero ELSE float_mul_100(float_div(count, total))

(* sorted(items, key=strptime, reverse=True)[:6] as <<label, count>> pairs *)
RECURSIVE newest_first(_, _)
newest_first(by_month, limit) ==
    IF DOMAIN by_month = {} \/ limit = 0 THEN <<>>
    ELSE LET newest == CHOOSE l \in DOMAIN by_month :
                           \A o \in DOMAIN by_month : strptime_month(o) <= strptime_month(l)
             rest == [l \in DOMAIN by_month \ {newest} |-> by_month[l]]
         IN <<<<newest, by_month[newest]>>>> \o newest_first(rest, limit - 1)

(* job_popularity[title] = count, a dict in insertion order                *)
dict_set(items, key, value) ==
    IF \E i \in DOMAIN items : items[i][1] = key
    THEN [i \in DOMAIN items |-> IF items[i][1] = key THEN <<key, value>> ELSE items[i]]
    ELSE Append(items, <<key, value>>)

application_count(apps, job_id) ==
    Cardinality({a \in DOMAIN apps : apps[a].job_id = job_id})

RECURSIVE job_popularity(_, _, _)
job_popularity(postings, apps, jobs) ==
    IF jobs = <<>> THEN <<>>
    ELSE LET job_id == jobs[Len(jobs)]
         IN dict_set(job_popularity(postings, apps, SubSeq(jobs, 1, Len(jobs) - 1)),
                     postings[job_id].title, application_count(apps, job_id))

(* max(items, key=count): the first item with the largest count            *)
max_by_count(items) ==
    items[CHOOSE i \in DOMAIN items :
              /\ \A k \in DOMAIN items : items[k][2] <= items[i][2]
              /\ \A k \in DOMAIN items : k < i => items[k][2] < items[i][2]]

employer_jobs_not_archived(u) ==
    {j \in JobIds : job_postings[j].employer_id = u /\ job_postings[j].status /= "archived"}

employer_jobs(u) == {j \in JobIds : job_postings[j].employer_id = u}

employer_applications_of_all(postings, apps, u) == DOMAIN apps

employer_applications(postings, apps, u) ==
    {a \in DOMAIN apps : postings[apps[a].job_id].employer_id = u}

responded_any(status) == TRUE

responded(status) == status /= "applied"

count_rejected_as_responded(apps, total_apps) ==
    Cardinality({a \in total_apps : apps[a].status /= "applied"})

count_rejected(apps, total_apps) ==
    Cardinality({a \in total_apps : apps[a].status = "rejected"})

(* the snapshot of employer u over the postings and applications of a      *)
(* store; jobs: the employer's postings in the order the store returns     *)
(* them                                                                    *)
compute_snapshot(postings, apps, u, jobs) ==
    LET total_apps == employer_applications(postings, apps, u)
        total_applications == Cardinality(total_apps)
        with_status(st) == Cardinality({a \in total_apps : apps[a].status = st})
        accepted == with_status("accepted")
        interviews == with_status("interview")
        rejected == count_rejected(apps, total_apps)
        responders == {a \in total_apps : responded(apps[a].status)}
        apps_by_month ==
            [l \in {strftime_month(apps[a].submitted_at) : a \in total_apps} |->
                Cardinality({a \in total_apps : strftime_month(apps[a].submitted_at) = l})]
        apps_by_status ==
            [st \in {apps[a].status : a \in total_apps} |-> with_status(st)]
        response_times ==
            [a \in responders |-> days(apps[a].updated_at - apps[a].submitted_at)]
        avg_response_time ==
            IF responders = {} THEN FloatZero
            ELSE float_div(SumOver(responders, response_times), Cardinality(responders))
        popularity == job_popularity(postings, apps, jobs)
        with_job_status(st) == Cardinality({j \in Range(jobs) : postings[j].status = st})
    IN [total_jobs |-> Len(jobs),
        total_applications |-> total_applications,
        acceptance_rate |-> round1(rate(accepted, total_applications)),
        interview_rate |-> round1(rate(interviews, total_applications)),
        rejection_rate |-> round1(rate(rejected, total_applications)),
        response_rate |-> round1(rate(Cardinality(responders), total_applications)),
        apps_by_month |-> newest_first(apps_by_month, MonthsShown),
        apps_by_status |-> apps_by_status,
        avg_response_time |-> round1(avg_response_time),
        most_popular_job |-> IF popularity /= <<>> THEN max_by_count(popularity)
                             ELSE <<NoJobTitle, 0>>,
        active_jobs |-> with_job_status("active"),
        paused_jobs |-> with_job_status("paused"),
        archived_jobs |-> with_job_status("archived")]

snapshot(u, jobs) == compute_snapshot(job_postings, applications, u, jobs)

analytics(u) ==
    \E jobs \in Perms(employer_jobs(u)) :
        /\ u \in UserIds
        /\ response' = IF users[u].role /= "employer"
                       THEN Resp("analytics", u, FlashAccessDenied, <<>>, <<>>, <<>>)
                       ELSE Resp("analytics", u, "", <<>>, <<>>, snapshot(u, jobs))
        /\ UNCHANGED <<users, job_postings, applications, utcnow, requests>>

(***************************************************************************)
(* Accounts that registration produces, used to start from a populated     *)
(* store.                                                                  *)
(***************************************************************************)
Account(email, role, loc) ==
    [email |-> email, role |-> role, full_name |-> "n1", phone |-> "p1",
     address |-> Address1.address, city |-> Address1.city, zip_code |-> Address1.zip_code,
     latitude |-> loc[1], longitude |-> loc[2],
     company_name |-> IF role = "employer" THEN Some("co1") ELSE None,
     company_description |-> IF role = "employer" THEN Some("d1") ELSE None]

(***************************************************************************)
(* SpecJobs: an employer and a job seeker are registered; postings are     *)
(* created, edited, paused, archived and searched.                         *)
(***************************************************************************)
InitJobs ==
    /\ users = <<Account("e1", "employer", LocA), Account("e2", "job_seeker", LocA)>>
    /\ job_postings = <<>>
    /\ applications = <<>>
    /\ utcnow = 0
    /\ response = NoResponse
    /\ requests = NoRequests

DoCreateJob == \E u \in UserIds, form \in JobForms, reply \in GeoReplies : create_job(u, form, reply)
DoEditJob == \E u \in UserIds, j \in 1..MaxJobs, form \in JobForms : edit_job(u, j, form)
DoToggleJobStatus == \E u \in UserIds, j \in 1..MaxJobs : toggle_job_status(u, j)
DoArchiveJob == \E u \in UserIds, j \in 1..MaxJobs : archive_job(u, j)
DoSearchJobs ==
    \E u \in UserIds, keyword \in Keywords, category \in SearchCategories, radius \in RadiusArgs :
        search_jobs(u, keyword, category, radius)

NextJobs == DoCreateJob \/ DoEditJob \/ DoToggleJobStatus \/ DoArchiveJob \/ DoSearchJobs

SpecJobs == InitJobs /\ [][NextJobs]_vars

(***************************************************************************)
(* SpecAccounts: from the empty store, users register, edit their profile  *)
(* and post jobs.                                                          *)
(***************************************************************************)
InitEmpty ==
    /\ users = <<>>
    /\ job_postings = <<>>
    /\ applications = <<>>
    /\ utcnow = 0
    /\ response = NoResponse
    /\ requests = NoRequests

AccountReplies == {GeoFailure, GeoEmpty, GeoFound(LocA), GeoFound(LocB), GeoFound(LocZero)}
PostingReplies == {GeoFailure, GeoEmpty, GeoFound(LocA)}

DoRegister == \E form \in RegisterForms, reply \in AccountReplies : register(form, reply)
DoEditProfile == \E u \in UserIds, form \in ProfileForms, reply \in AccountReplies : edit_profile(u, form, reply)
DoPostJob == \E u \in UserIds, reply \in PostingReplies : create_job(u, JobForm1, reply)

NextAccounts == DoRegister \/ DoEditProfile \/ DoPostJob

SpecAccounts == InitEmpty /\ [][NextAccounts]_vars

(***************************************************************************)
(* SpecFunnel: an employer with a posting, an employer without one and two *)
(* job seekers are registered; seekers apply, employers update the status  *)
(* of applications and read their analytics while time passes.             *)
(***************************************************************************)
Posting(employer_id, form, loc) ==
    [employer_id |-> employer_id, title |-> form.title, description |-> form.description,
     category |-> form.category, employment_type |-> form.employment_type,
     salary_min |-> ToFloat(form.salary_min), salary_max |-> ToFloat(form.salary_max),
     street_address |-> form.street_address, city |-> form.city, zip_code |-> form.zip_code,
     latitude |-> loc[1], longitude |-> loc[2], status |-> "active"]

InitFunnel ==
    /\ users = <<Account("e1", "employer", LocA), Account("e2", "employer", LocB),
                 Account("s1", "job_seeker", LocA), Account("s2", "job_seeker", LocB)>>
    /\ job_postings = <<Posting(1, JobForm1, LocA)>>
    /\ applications = <<>>
    /\ utcnow = 0
    /\ response = NoResponse
    /\ requests = NoRequests

NewStatuses == {"applied", "interview", "accepted", "rejected"}
Methods == {"GET", "POST"}

DoApplyJob == \E u \in UserIds, j \in 1..(Len(job_postings) + 1), method \in Methods : apply_job(u, j, method)
DoUpdateApplicationStatus ==
    \E u \in UserIds, a \in 1..(Len(applications) + 1), st \in NewStatuses :
        update_application_status(u, a, st)
DoAnalytics == \E u \in UserIds : analytics(u)

NextFunnel == DoApplyJob \/ DoUpdateApplicationStatus \/ DoAnalytics \/ Tick

SpecFunnel == InitFunnel /\ [][NextFunnel]_vars

(***************************************************************************)
(* SpecRates: the analytics of a store in which the first employer's       *)
(* posting has received a given number of accepted, interview, rejected    *)
(* and applied applications, a second employer's posting has one accepted  *)
(* application, and a third employer has no posting.                       *)
(***************************************************************************)
StatusRows(accepted, interviews, rejected, applied) ==
    [k \in 1..(accepted + interviews + rejected + applied) |->
        IF k <= accepted THEN "accepted"
        ELSE IF k <= accepted + interviews THEN "interview"
        ELSE IF k <= accepted + interviews + rejected THEN "rejected"
        ELSE "applied"]

Submitted(job_id, applicant_id, status) ==
    [job_id |-> job_id, applicant_id |-> applicant_id, resume_id |-> None,
     cover_letter |-> "", status |-> status, submitted_at |-> 0, updated_at |-> 0]

RateEmployers == 3

RateStore(accepted, interviews, rejected, applied) ==
    LET rows == StatusRows(accepted, interviews, rejected, applied)
        seekers == IF Len(rows) = 0 THEN 1 ELSE Len(rows)
    IN /\ Len(rows) <= MaxRateApps
       /\ users = <<Account("e1", "employer", LocA), Account("e2", "employer", LocB),
                    Account("e3", "employer", LocA)>>
                  \o [k \in 1..seekers |-> Account("s" \o ToString(k), "job_seeker", LocA)]
       /\ job_postings = <<Posting(1, JobForm1, LocA), Posting(2, JobForm2, LocB)>>
       /\ applications = [k \in 1..Len(rows) |-> Submitted(1, RateEmployers + k, rows[k])]
                         \o <<Submitted(2, RateEmployers + 1, "accepted")>>
       /\ utcnow = 0
       /\ response = NoResponse
       /\ requests = NoRequests

InitRates ==
    \/ \E accepted \in 0..MaxRateApps, rejected \in 0..MaxRateApps :
           RateStore(accepted, 0, rejected, 0)
    \/ \E accepted \in 0..MaxRateMixed, rejected \in 0..MaxRateMixed,
          interviews \in 0..MaxRateInterviews, applied \in 0..MaxRateApplied :
           RateStore(accepted, interviews, rejected, applied)

DoRateAnalytics == \E u \in 1..(RateEmployers + 1) : analytics(u)

NextRates == DoRateAnalytics

SpecRates == InitRates /\ [][NextRates]_vars

(***************************************************************************)
(* SpecMonths: the analytics of a store in which the first employer's      *)
(* posting has received one application in each month of a set of months   *)
(* that runs over a new year, a second one in one of these months, and the *)
(* second employer's posting one application in an earlier month.          *)
(***************************************************************************)
FirstMonth == 9
TicksPerMonth == DaysPerMonth * TicksPerDay
SubmissionMonths == FirstMonth..(FirstMonth + MaxMonths - 1)
ObservedStatuses == <<"applied", "interview", "accepted", "rejected", "shortlisted">>

RECURSIVE Ascending(_)
Ascending(S) ==
    IF S = {} THEN <<>>
    ELSE LET least == CHOOSE x \in S : \A y \in S : x <= y
         IN <<least>> \o Ascending(S \ {least})

SubmittedIn(job_id, applicant_id, month) ==
    [job_id |-> job_id, applicant_id |-> applicant_id, resume_id |-> None,
     cover_letter |-> "", status |-> ObservedStatuses[(month % Len(ObservedStatuses)) + 1],
     submitted_at |-> month * TicksPerMonth + 1, updated_at |-> month * TicksPerMonth + 1]

MonthStore(months, again) ==
    LET rows == Ascending(months) \o again
    IN /\ users = <<Account("e1", "employer", LocA), Account("e2", "employer", LocB)>>
                  \o [k \in 1..(Len(rows) + 1) |-> Account("s" \o ToString(k), "job_seeker", LocA)]
       /\ job_postings = <<Posting(1, JobForm1, LocA), Posting(2, JobForm2, LocB)>>
       /\ applications = <<SubmittedIn(2, 3, 0)>>
                         \o [k \in 1..Len(rows) |-> SubmittedIn(1, 3 + k, rows[k])]
       /\ utcnow = (FirstMonth + MaxMonths) * TicksPerMonth
       /\ response = NoResponse
       /\ requests = NoRequests

InitMonths ==
    \E months \in SUBSET SubmissionMonths :
        \E again \in {<<>>} \cup {<<m>> : m \in months} : MonthStore(months, again)

DoMonthAnalytics == \E u \in UserIds : analytics(u)

NextMonths == DoMonthAnalytics

SpecMonths == InitMonths /\ [][NextMonths]_vars

(***************************************************************************)
(* SpecBoard: two employers and a job seeker are registered and the first  *)
(* employer has a posting; employers post jobs and archive their own, the  *)
(* second employer pauses and resumes its own, the seeker searches and     *)
(* applies, employers accept the applications to their postings and read   *)
(* their analytics.                                                        *)
(***************************************************************************)
InitBoard ==
    /\ users = <<Account("e1", "employer", LocA), Account("e2", "employer", LocB),
                 Account("s1", "job_seeker", LocA)>>
    /\ job_postings = <<Posting(1, JobForm1, LocA)>>
    /\ applications = <<>>
    /\ utcnow = 0
    /\ response = NoResponse
    /\ requests = NoRequests

BoardStatuses == {"accepted"}
Owner(j) == {job_postings[j].employer_id}
WithRole(role) == {u \in UserIds : users[u].role = role}
(* the forms an employer posts and the employers that pause postings       *)
BoardForms(u) == IF u = 1 THEN {JobForm1, JobForm2} ELSE {JobForm2}
BoardPausers == {2}

DoBoardCreateJob ==
    \E u \in WithRole("employer") : \E form \in BoardForms(u) : create_job(u, form, GeoFound(LocA))
DoBoardToggleJobStatus ==
    \E j \in JobIds : \E u \in Owner(j) \cap BoardPausers : toggle_job_status(u, j)
DoBoardArchiveJob == \E j \in JobIds : \E u \in Owner(j) : archive_job(u, j)
DoBoardApplyJob == \E u \in WithRole("job_seeker"), j \in JobIds : apply_job(u, j, "POST")
DoBoardUpdateApplicationStatus ==
    \E a \in ApplicationIds, st \in BoardStatuses :
        \E u \in Owner(applications[a].job_id) : update_application_status(u, a, st)
DoBoardSearchJobs == \E u \in WithRole("job_seeker") : search_jobs(u, <<>>, "c2", None)
DoBoardAnalytics == \E u \in WithRole("employer") : analytics(u)

NextBoard ==
    \/ DoBoardCreateJob
    \/ DoBoardToggleJobStatus
    \/ DoBoardArchiveJob
    \/ DoBoardApplyJob
    \/ DoBoardUpdateApplicationStatus
    \/ DoBoardSearchJobs
    \/ DoBoardAnalytics

SpecBoard == InitBoard /\ [][NextBoard]_vars

(***************************************************************************)
(* SpecRace: an employer has a posting with one application; requests of   *)
(* the employer to update the application's status and to pause, resume    *)
(* or archive the posting are served at the same time.                     *)
(***************************************************************************)
InitRace ==
    /\ users = <<Account("e1", "employer", LocA), Account("e2", "employer", LocB),
                 Account("s1", "job_seeker", LocA)>>
    /\ job_postings = <<Posting(1, JobForm1, LocA)>>
    /\ applications = <<Submitted(1, 3, "applied")>>
    /\ utcnow = 0
    /\ response = NoResponse
    /\ requests = [r \in 1..MaxRequests |-> NotStarted]

JobOperations == {"toggle_job_status", "archive_job"}

DoLoadApplication ==
    \E r \in DOMAIN requests, u \in WithRole("employer"), a \in ApplicationIds, st \in NewStatuses :
        load_application(r, u, a, st)
DoCommitApplicationStatus == \E r \in DOMAIN requests : commit_application_status(r)
DoLoadJob ==
    \E r \in DOMAIN requests, op \in JobOperations, u \in WithRole("employer"), j \in JobIds :
        load_job(r, op, u, j)
DoCommitJobStatus == \E r \in DOMAIN requests : commit_job_status(r)

NextRace ==
    \/ DoLoadApplication
    \/ DoCommitApplicationStatus
    \/ DoLoadJob
    \/ DoCommitJobStatus
    \/ TickRequests

SpecRace == InitRace /\ [][NextRace]_vars

(***************************************************************************)
(* Properties of the posting lifecycle, the service area and the search    *)
(***************************************************************************)
JobStatuses == {"active", "paused", "archived"}
ServiceAreaRadius == SERVICE_AREA_RADIUS_KM * MetresPerKm
DistanceToCenter(job) ==
    calculate_distance(job.latitude, job.longitude, SERVICE_AREA_CENTER_LAT, SERVICE_AREA_CENTER_LNG)

(* C1: archived is absorbing.  In every step, a posting that is archived   *)
(* stays archived; a toggle_job_status request changes no posting other    *)
(* than by swapping active and paused, and leaves an archived posting      *)
(* exactly as it was.                                                      *)
C1_ArchivedAbsorbing ==
    [][/\ \A j \in JobIds :
              job_postings[j].status = "archived" => job_postings'[j].status = "archived"
       /\ response'.op = "toggle_job_status" =>
              /\ Len(job_postings') = Len(job_postings)
              /\ \A j \in JobIds :
                     /\ \/ job_postings'[j].status = job_postings[j].status
                        \/ <<job_postings[j].status, job_postings'[j].status>>
                               \in {<<"active", "paused">>, <<"paused", "active">>}
                     /\ job_postings[j].status = "archived" => job_postings'[j] = job_postings[j]
                     /\ [job_postings'[j] EXCEPT !.status = job_postings[j].status] = job_postings[j]
      ]_vars

(* the owner has just toggled a posting that is archived                   *)
C1_Witness ==
    /\ response.op = "toggle_job_status"
    /\ response.flash = ""
    /\ job_postings[response.args[1]].status = "archived"

(* C2: every persisted posting lies within the service area (its distance  *)
(* to the centre is at most the radius), and no edit_job request changes   *)
(* the latitude or longitude of a posting.                                 *)
C2_WithinServiceArea ==
    /\ [](\A j \in JobIds : DistanceToCenter(job_postings[j]) <= ServiceAreaRadius)
    /\ [][response'.op = "edit_job" =>
              \A j \in JobIds : /\ job_postings'[j].latitude = job_postings[j].latitude
                                /\ job_postings'[j].longitude = job_postings[j].longitude]_vars

(* a posting exists, and a creation at 60 km from the centre was rejected  *)
C2_Witness ==
    /\ job_postings /= <<>>
    /\ response.op = "create_job"
    /\ response.flash = FlashOutsideArea
    /\ response.geo = <<<<Some(LocFar[1]), Some(LocFar[2])>>>>
    /\ calculate_distance(LocFar[1], LocFar[2], SERVICE_AREA_CENTER_LAT, SERVICE_AREA_CENTER_LNG)
           = 60 * MetresPerKm

(* C3: when the geocoder returned a location (latitude and longitude both  *)
(* present, whatever their values), create_job does not answer "could not  *)
(* verify address": it posts the job at that location or answers "outside  *)
(* service area"; "could not verify address" is answered only when the     *)
(* geocoder returned Unresolved.                                           *)
C3_ResolvedIsNeverUnverified ==
    (response.op = "create_job" /\ response.geo /= <<>>) =>
        LET geo == response.geo[1]
        IN /\ (geo[1] /= None /\ geo[2] /= None) =>
                  \/ response.flash = FlashOutsideArea
                  \/ /\ response.flash = "Job posted successfully!"
                     /\ job_postings /= <<>>
                     /\ job_postings[Len(job_postings)].latitude = geo[1][1]
                     /\ job_postings[Len(job_postings)].longitude = geo[2][1]
           /\ response.flash = FlashCouldNotVerify => geo = Unresolved

(* C4: when the geocoder returned Unresolved, the request is rejected and  *)
(* the store is unchanged: no posting, no user, and no change of the       *)
(* user's record by edit_profile.                                          *)
C4_UnresolvedAborts ==
    [][(/\ response'.op \in {"create_job", "register", "edit_profile"}
        /\ response'.geo = <<Unresolved>>) =>
           /\ users' = users
           /\ job_postings' = job_postings
           /\ applications' = applications
           /\ response'.flash \in {FlashCouldNotVerify, FlashCouldNotVerifyNew}]_vars

(* edit_profile was rejected for an unresolved address after it had        *)
(* assigned a new name, and the stored name is still the old one           *)
C4_Witness ==
    /\ response.op = "edit_profile"
    /\ response.geo = <<Unresolved>>
    /\ response.args.full_name /= users[response.user].full_name
    /\ response.args.phone /= users[response.user].phone

(* what a search rendered                                                  *)
Searched == response.op = "search_jobs" /\ response.flash = ""
Results == response.result
Seeker == users[response.user]
TrueDistance(j) ==
    calculate_distance(Seeker.latitude, Seeker.longitude,
                       job_postings[j].latitude, job_postings[j].longitude)
PositionIn(seq, x) == CHOOSE i \in DOMAIN seq : seq[i] = x

(* C5 as stated: every returned element's reported distance (rounded to 2  *)
(* decimals) is at most the radius.                                        *)
C5_ReportedWithinRadius ==
    Searched => \A i \in DOMAIN Results : 10 * Results[i].distance <= response.args.radius

(* C5 as amended: every returned posting's distance is at most the radius; *)
(* the reported distance is that distance rounded to the nearest hundredth *)
(* of a kilometre, so it exceeds the radius by at most 0.005 km, and not   *)
(* at all when the radius is a whole number of hundredths.                 *)
C5_DistanceWithinRadius ==
    Searched => \A i \in DOMAIN Results :
        LET d == TrueDistance(Results[i].job)
            reported == 10 * Results[i].distance
        IN /\ d <= response.args.radius
           /\ Abs(reported - d) <= 5
           /\ reported <= response.args.radius + 5
           /\ response.args.radius % 10 = 0 => reported <= response.args.radius

(* a returned posting whose reported distance is above the radius          *)
C5_Witness ==
    /\ Searched
    /\ \E i \in DOMAIN Results : 10 * Results[i].distance > response.args.radius

(* C6 as stated: the result is sorted non-decreasing by distance, and      *)
(* postings with equal distance appear in id order.                        *)
C6_SortedTiesById ==
    Searched => \A i, k \in DOMAIN Results : i < k =>
        /\ Results[i].distance <= Results[k].distance
        /\ Results[i].distance = Results[k].distance => Results[i].job < Results[k].job

(* C6 as amended: the result is sorted non-decreasing by reported          *)
(* distance, and postings with equal reported distance appear in the order *)
(* in which the store returned them to the query.                          *)
C6_SortedTiesAsFetched ==
    Searched => \A i, k \in DOMAIN Results : i < k =>
        /\ Results[i].distance <= Results[k].distance
        /\ Results[i].distance = Results[k].distance =>
               PositionIn(response.args.jobs, Results[i].job)
                   < PositionIn(response.args.jobs, Results[k].job)

(* the store returned a farther posting before a nearer one, and the       *)
(* result lists the nearer one first                                       *)
C6_Witness ==
    /\ Searched
    /\ Len(Results) >= 2
    /\ Results[1].distance < Results[2].distance
    /\ PositionIn(response.args.jobs, Results[1].job) > PositionIn(response.args.jobs, Results[2].job)

(* C7: the result holds exactly the active postings whose title or         *)
(* description contains the keyword (case-insensitively; any posting when  *)
(* the keyword is empty), whose category is the requested one (any when    *)
(* empty) and whose distance is at most the radius, each once.             *)
C7_ExactlyTheMatches ==
    Searched =>
        LET keyword == Lower(response.args.keyword)
            expected == {j \in JobIds :
                            /\ job_postings[j].status = "active"
                            /\ \/ keyword = <<>>
                               \/ Contains(Lower(job_postings[j].title), keyword)
                               \/ Contains(Lower(job_postings[j].description), keyword)
                            /\ \/ response.args.category = ""
                               \/ job_postings[j].category = response.args.category
                            /\ TrueDistance(j) <= response.args.radius}
        IN /\ {Results[i].job : i \in DOMAIN Results} = expected
           /\ Len(Results) = Cardinality(expected)

(***************************************************************************)
(* Properties of the analytics                                             *)
(***************************************************************************)
Snapshotted == response.op = "analytics" /\ response.flash = ""
Snap == response.result
OwnApplications ==
    {a \in ApplicationIds :
        \E j \in JobIds : /\ job_postings[j].employer_id = response.user
                          /\ applications[a].job_id = j}
OwnWithStatus(st) == {a \in OwnApplications : applications[a].status = st}
OwnResponded == OwnApplications \ OwnWithStatus("applied")
ResponseDays == [a \in OwnResponded |->
                    (applications[a].updated_at - applications[a].submitted_at) \div TicksPerDay]

(* tenths is a number of tenths nearest to the fraction p / q              *)
NearestTenth(tenths, p, q) == 2 * Abs(tenths * q - 10 * p) <= q

(* C8: the snapshot's totalApplications is the number T of applications to *)
(* the employer's postings; when T > 0 each rate is 100 * count / T        *)
(* rounded to the nearest tenth, the count being that of the accepted, the *)
(* interview, the rejected, and the not-applied applications; 3 accepted,  *)
(* 2 interview, 1 rejected and 4 applied give 30.0, 20.0, 10.0 and 60.0;   *)
(* when T = 0 every rate and the average response time are 0.              *)
C8_Rates ==
    Snapshotted =>
        LET T == Cardinality(OwnApplications)
            accepted == Cardinality(OwnWithStatus("accepted"))
            interviews == Cardinality(OwnWithStatus("interview"))
            rejected == Cardinality(OwnWithStatus("rejected"))
            applied == Cardinality(OwnWithStatus("applied"))
        IN /\ Snap.total_applications = T
           /\ T > 0 => /\ NearestTenth(Snap.acceptance_rate, 100 * accepted, T)
                       /\ NearestTenth(Snap.interview_rate, 100 * interviews, T)
                       /\ NearestTenth(Snap.rejection_rate, 100 * rejected, T)
                       /\ NearestTenth(Snap.response_rate, 100 * (T - applied), T)
           /\ (accepted = 3 /\ interviews = 2 /\ rejected = 1 /\ applied = 4 /\ T = 10) =>
                  /\ Snap.acceptance_rate = 300
                  /\ Snap.interview_rate = 200
                  /\ Snap.rejection_rate = 100
                  /\ Snap.response_rate = 600
           /\ T = 0 => /\ Snap.acceptance_rate = 0
                       /\ Snap.interview_rate = 0
                       /\ Snap.rejection_rate = 0
                       /\ Snap.response_rate = 0
                       /\ Snap.avg_response_time = 0

(* the snapshot of the employer with 3 accepted, 2 interview, 1 rejected   *)
(* and 4 applied applications, while another employer has an application   *)
C8_Witness ==
    /\ Snapshotted
    /\ Cardinality(OwnApplications) = 10
    /\ Cardinality(OwnApplications) < Len(applications)
    /\ Cardinality(OwnWithStatus("accepted")) = 3
    /\ Cardinality(OwnWithStatus("interview")) = 2
    /\ Cardinality(OwnWithStatus("rejected")) = 1
    /\ Snap.response_rate = 600

(* C9: a status change from applied to another value stamps updated_at     *)
(* with the time of the change, not before submitted_at; every snapshot    *)
(* counts exactly the applications that are not in applied toward the      *)
(* response rate and averages exactly their response times, each of which  *)
(* is non-negative.                                                        *)
C9_RespondedCounts ==
    /\ [](Snapshotted =>
            /\ OwnApplications /= {} =>
                   NearestTenth(Snap.response_rate, 100 * Cardinality(OwnResponded),
                                Cardinality(OwnApplications))
            /\ OwnResponded /= {} =>
                   NearestTenth(Snap.avg_response_time, SumOver(OwnResponded, ResponseDays),
                                Cardinality(OwnResponded))
            /\ OwnResponded = {} => Snap.avg_response_time = 0
            /\ \A a \in OwnResponded : ResponseDays[a] >= 0)
    /\ [][\A a \in ApplicationIds :
              (applications[a].status = "applied" /\ applications'[a].status /= "applied") =>
                  /\ applications'[a].updated_at = utcnow
                  /\ applications'[a].submitted_at = applications[a].submitted_at
                  /\ applications'[a].updated_at >= applications'[a].submitted_at]_vars

(* a snapshot over one application answered a day after it was submitted   *)
(* and one still in applied                                                *)
C9_Witness ==
    /\ Snapshotted
    /\ \E a \in OwnResponded : ResponseDays[a] = 1
    /\ OwnWithStatus("applied") /= {}
    /\ Snap.response_rate = 500
    /\ Snap.avg_response_time = 10

(* C10 as stated: the reported acceptance rate plus the reported rejection *)
(* rate is at most 100.                                                    *)
C10_AcceptedPlusRejected ==
    Snapshotted => Snap.acceptance_rate + Snap.rejection_rate <= 1000

(* C10 as amended: no application is counted as both accepted and          *)
(* rejected, the two reported rates add up to at most 100.1, and to more   *)
(* than 100 only when each of the two percentages lies exactly halfway     *)
(* between two tenths.                                                     *)
C10_AcceptedPlusRejectedRounded ==
    Snapshotted =>
        LET T == Cardinality(OwnApplications)
            accepted == Cardinality(OwnWithStatus("accepted"))
            rejected == Cardinality(OwnWithStatus("rejected"))
        IN /\ accepted + rejected <= T
           /\ Snap.acceptance_rate + Snap.rejection_rate <= 1001
           /\ Snap.acceptance_rate + Snap.rejection_rate > 1000 =>
                  /\ 2 * ((1000 * accepted) % T) = T
                  /\ 2 * ((1000 * rejected) % T) = T

(* a snapshot whose acceptance and rejection rates add up to 100.1         *)
C10_Witness ==
    /\ Snapshotted
    /\ Snap.acceptance_rate + Snap.rejection_rate = 1001

OwnJobs == {j \in JobIds : job_postings[j].employer_id = response.user}
ApplicationsTo(j) == {a \in ApplicationIds : applications[a].job_id = j}

(* C11: the snapshot's most popular job is the title and the application   *)
(* count of one of the employer's postings whose count is the largest      *)
(* among the employer's postings, also when postings share a title; it is  *)
(* ("None", 0) exactly when the employer has no posting.                   *)
C11_MostPopularJob ==
    Snapshotted =>
        /\ OwnJobs = {} <=> Snap.most_popular_job = <<NoJobTitle, 0>>
        /\ OwnJobs /= {} =>
               \E j \in OwnJobs :
                   /\ Snap.most_popular_job =
                          <<job_postings[j].title, Cardinality(ApplicationsTo(j))>>
                   /\ \A k \in OwnJobs :
                          Cardinality(ApplicationsTo(k)) <= Cardinality(ApplicationsTo(j))

MonthOf(a) == applications[a].submitted_at \div (DaysPerMonth * TicksPerDay)
OwnMonths == {MonthOf(a) : a \in OwnApplications}
MonthLabel(m) == <<MonthNames[(m % 12) + 1], EpochYear + (m \div 12)>>
Buckets == Snap.apps_by_month
BucketMonth(i) == CHOOSE m \in OwnMonths : MonthLabel(m) = Buckets[i][1]

(* C12: the monthly buckets are the months in which the employer's         *)
(* applications were submitted, cut to the 6 most recent, newest first,    *)
(* each with the number of applications submitted in it; the status        *)
(* buckets have one entry for every status observed, each with the number  *)
(* of applications in that status, and add up to the total.                *)
C12_Buckets ==
    Snapshotted =>
        /\ Len(Buckets) = IF Cardinality(OwnMonths) < MonthsShown
                          THEN Cardinality(OwnMonths) ELSE MonthsShown
        /\ \A i \in DOMAIN Buckets :
               /\ \E m \in OwnMonths : MonthLabel(m) = Buckets[i][1]
               /\ Buckets[i][2] =
                      Cardinality({a \in OwnApplications : MonthOf(a) = BucketMonth(i)})
               /\ \A k \in DOMAIN Buckets : i < k => BucketMonth(i) > BucketMonth(k)
        /\ \A m \in OwnMonths :
               Cardinality({n \in OwnMonths : n > m}) < MonthsShown
                   <=> \E i \in DOMAIN Buckets : Buckets[i][1] = MonthLabel(m)
        /\ DOMAIN Snap.apps_by_status = {applications[a].status : a \in OwnApplications}
        /\ \A st \in DOMAIN Snap.apps_by_status :
               Snap.apps_by_status[st] = Cardinality(OwnWithStatus(st))
        /\ SumOver(DOMAIN Snap.apps_by_status, Snap.apps_by_status) = Snap.total_applications

(* a snapshot over more than 6 months on both sides of a new year, one of  *)
(* the months shown holding two applications                               *)
C12_Witness ==
    /\ Snapshotted
    /\ Cardinality(OwnMonths) > MonthsShown
    /\ \E m, n \in OwnMonths : m < 12 /\ n >= 12
    /\ Len(Buckets) = MonthsShown
    /\ Buckets[1][1][2] > Buckets[MonthsShown][1][2]
    /\ \E i \in DOMAIN Buckets : Buckets[i][2] = 2
    /\ Cardinality(DOMAIN Snap.apps_by_status) = Len(ObservedStatuses)

(* what the store holds of employer u: the postings u owns and the         *)
(* applications to them                                                    *)
OwnedBy(u) ==
    <<[j \in {k \in JobIds : job_postings[k].employer_id = u} |-> job_postings[j]],
      [a \in {b \in ApplicationIds : job_postings[applications[b].job_id].employer_id = u} |->
          applications[a]]>>

(* C13: a step that changes the store but leaves an employer's postings    *)
(* and the applications to them as they are, whatever it does to the       *)
(* postings of other employers and to the applications to those, leaves    *)
(* the employer's snapshot as it is.                                       *)
C13_OwnDataOnly ==
    [][\A u \in UserIds :
          (users[u].role = "employer" /\ store' /= store /\ OwnedBy(u)' = OwnedBy(u)) =>
              \A jobs \in Perms(employer_jobs(u)) :
                  compute_snapshot(job_postings', applications', u, jobs) = snapshot(u, jobs)]_vars

(* the first employer reads a snapshot that counts its one application     *)
(* while the other employer has an archived posting with an application    *)
C13_Witness ==
    /\ Snapshotted
    /\ response.user = 1
    /\ Snap.total_applications = 1
    /\ Snap.total_jobs = 1
    /\ \E j \in JobIds : /\ job_postings[j].employer_id = 2
                         /\ job_postings[j].status = "archived"
                         /\ \E a \in ApplicationIds : /\ applications[a].job_id = j
                                                      /\ applications[a].status = "accepted"

ReadOperations == {"analytics", "search_jobs"}
OwnJobsWithStatus(st) == {j \in OwnJobs : job_postings[j].status = st}
WithoutMostPopular(snap) == [snap EXCEPT !.most_popular_job = <<>>]

(* a step of analytics or search_jobs changes no user, posting or          *)
(* application                                                             *)
ReadsChangeNothing == [][response'.op \in ReadOperations => store' = store]_vars

(* the snapshot in hand counts the postings and applications as they are   *)
(* in the store, whatever was committed before the call                    *)
ReflectsTheStore ==
    Snapshotted =>
        /\ Snap.total_jobs = Cardinality(OwnJobs)
        /\ Snap.active_jobs = Cardinality(OwnJobsWithStatus("active"))
        /\ Snap.paused_jobs = Cardinality(OwnJobsWithStatus("paused"))
        /\ Snap.archived_jobs = Cardinality(OwnJobsWithStatus("archived"))
        /\ Snap.total_applications = Cardinality(OwnApplications)
        /\ \A st \in DOMAIN Snap.apps_by_status :
               Snap.apps_by_status[st] = Cardinality(OwnWithStatus(st))

(* among the employer's postings no two share a title and one has more     *)
(* applications than every other                                           *)
OnePopularTitle ==
    /\ \A j, k \in OwnJobs : j /= k => job_postings[j].title /= job_postings[k].title
    /\ OwnJobs /= {} =>
           \E j \in OwnJobs : \A k \in OwnJobs \ {j} :
               Cardinality(ApplicationsTo(k)) < Cardinality(ApplicationsTo(j))

(* C14 as stated: analytics and search_jobs are read-only, a second        *)
(* analytics call on the unchanged store returns the snapshot the first    *)
(* returned, and a snapshot reflects what was committed before the call.   *)
C14_ReadOnlyIdempotent ==
    /\ ReadsChangeNothing
    /\ [](ReflectsTheStore)
    /\ [](Snapshotted =>
            \A jobs \in Perms(OwnJobs) : snapshot(response.user, jobs) = Snap)

(* C14 as amended: analytics and search_jobs are read-only, a snapshot     *)
(* reflects what was committed before the call, and a second analytics     *)
(* call on the unchanged store returns the same snapshot in every field    *)
(* other than the most popular job, and in that field too when the         *)
(* employer's postings have different titles and one of them has the most  *)
(* applications.                                                           *)
C14_ReadOnlyRepeatable ==
    /\ ReadsChangeNothing
    /\ [](ReflectsTheStore)
    /\ [](Snapshotted =>
            \A jobs \in Perms(OwnJobs) :
                /\ WithoutMostPopular(snapshot(response.user, jobs)) = WithoutMostPopular(Snap)
                /\ OnePopularTitle => snapshot(response.user, jobs) = Snap)

(* a snapshot taken after an archive and an application were committed,    *)
(* which a second call can return with another most popular job            *)
C14_Witness ==
    /\ Snapshotted
    /\ Snap.archived_jobs = 1
    /\ Snap.total_applications = 1
    /\ \E jobs \in Perms(OwnJobs) :
           snapshot(response.user, jobs).most_popular_job /= Snap.most_popular_job

(***************************************************************************)
(* Properties of requests served at the same time                          *)
(***************************************************************************)
Served(op, id) ==
    {r \in DOMAIN requests : /\ requests[r].op = op
                             /\ requests[r].id = id
                             /\ requests[r].pc = "done"
                             /\ requests[r].row /= <<>>}
InFlight(op, id) ==
    {r \in DOMAIN requests : /\ requests[r].op = op
                             /\ requests[r].id = id
                             /\ requests[r].pc = "loaded"}
LastOf(S) == CHOOSE r \in S : \A q \in S : requests[q].seq <= requests[r].seq
Wrote(r) == requests[r].new_status /= requests[r].row[1].status
SameButStatus(row, other) ==
    /\ row.job_id = other.job_id
    /\ row.applicant_id = other.applicant_id
    /\ row.resume_id = other.resume_id
    /\ row.cover_letter = other.cover_letter
    /\ row.submitted_at = other.submitted_at

(* C15 as stated: once two or more requests to update the status of the    *)
(* same application have finished, the application's status is the one     *)
(* submitted by the request that committed last, and its fields other than *)
(* the status and the time of the update are as the requests read them.    *)
C15_LastCommitWins ==
    \A a \in ApplicationIds :
        LET done == Served("update_application_status", a)
        IN (Cardinality(done) >= 2 /\ InFlight("update_application_status", a) = {}) =>
               /\ applications[a].status = requests[LastOf(done)].new_status
               /\ \A r \in done : SameButStatus(applications[a], requests[r].row[1])

(* C15 as amended: a request that submits the status it read writes        *)
(* nothing; the application's status is the one submitted by the last      *)
(* request to commit among those that submitted a status other than the    *)
(* one they read, and the status it had before when there is none; once    *)
(* the requests have finished it is a status that one of them submitted;   *)
(* updated_at is the time of that last write; no other field changes.      *)
C15_LastWriteWins ==
    \A a \in ApplicationIds :
        LET done == Served("update_application_status", a)
            writers == {r \in done : Wrote(r)}
        IN /\ writers = {} => /\ applications[a].status = "applied"
                              /\ applications[a].updated_at = applications[a].submitted_at
           /\ writers /= {} =>
                  /\ applications[a].status = requests[LastOf(writers)].new_status
                  /\ applications[a].updated_at = requests[LastOf(writers)].at
           /\ done /= {} => \E r \in done : applications[a].status = requests[r].new_status
           /\ \A r \in done : SameButStatus(applications[a], requests[r].row[1])

(* two requests have finished, the one that committed last submitted the   *)
(* status it had read, and the application has the status of the other     *)
C15_Witness ==
    \E r, q \in Served("update_application_status", 1) :
        /\ requests[r].seq < requests[q].seq
        /\ requests[r].new_status = "interview"
        /\ requests[q].new_status = "applied"
        /\ requests[r].at > 0
        /\ applications[1].status = "interview"
        /\ InFlight("update_application_status", 1) = {}

(* C16: once a request to toggle and a request to archive the same posting *)
(* have both finished, whatever their interleaving, the posting is         *)
(* archived, and a posting that a finished archive request has left        *)
(* archived stays archived.                                                *)
C16_ArchivedAbsorbingInterleaved ==
    /\ [](\A j \in JobIds :
            (/\ Served("toggle_job_status", j) /= {}
             /\ Served("archive_job", j) /= {}
             /\ InFlight("toggle_job_status", j) = {}
             /\ InFlight("archive_job", j) = {}) => job_postings[j].status = "archived")
    /\ [][\A j \in JobIds :
              (Served("archive_job", j) /= {} /\ job_postings[j].status = "archived") =>
                  job_postings'[j].status = "archived"]_vars

(***************************************************************************)
(* Properties of applying                                                  *)
(***************************************************************************)
(* C17: no two applications are by the same seeker to the same job, and an *)
(* apply_job request answered with "already applied" leaves every          *)
(* application, its status included, as it was.                            *)
C17_OneApplicationPerSeekerAndJob ==
    /\ [](\A a, b \in ApplicationIds :
            (/\ applications[a].job_id = applications[b].job_id
             /\ applications[a].applicant_id = applications[b].applicant_id) => a = b)
    /\ [][(response'.op = "apply_job" /\ response'.flash = FlashAlreadyApplied) =>
              applications' = applications]_vars

(* a second apply was rejected while a seeker's application stands         *)
(* rejected and the other seeker's accepted                                *)
C17_Witness ==
    /\ response.op = "apply_job"
    /\ response.flash = FlashAlreadyApplied
    /\ Len(applications) = 2
    /\ \E a, b \in ApplicationIds : /\ applications[a].status = "rejected"
                                    /\ applications[b].status = "accepted"

====
